---------------------------- MODULE Spec2Model ----------------------------
(***************************************************************************)
(* A model of shoten/shoten.py: ingestion of observation tuples into the   *)
(* vocabulary (gen_wordlist, load_wordlist), the normaliser (refine_vocab, *)
(* dehyphen_vocab), the bins (calculate_bins, refine_frequencies,          *)
(* compute_frequencies) and the driver gen_freqlist.                       *)
(*                                                                         *)
(* A vocabulary (a Python dict, which keeps insertion order) is a sequence *)
(* of records [word, time_series, sources, headings]; a word-form is a     *)
(* sequence of one-character strings; a Counter is a bag.                  *)
(***************************************************************************)
EXTENDS Integers, Sequences, FiniteSets, Bags, TLC

VARIABLES
    pc,            \* position of the calling routine
    myvocab,       \* the vocabulary being built or transformed
    vocab0,        \* the vocabulary as it was passed to the running operation
    oldestday,     \* calculate_bins / gen_freqlist: oldest day-offset
    newestday,     \* calculate_bins / gen_freqlist: newest day-offset
    interval,      \* width of a bin in days
    bins,          \* the bin list
    timeseries,    \* compute_frequencies: the per-bin totals it returns
    mindiff,       \* parameter mindiff
    maxdiff,       \* parameter maxdiff
    caller,        \* the entry point that runs: "gen_wordlist", "load_wordlist", ...
    docs,          \* gen_wordlist: the XML files found, in find_files order
    authorregex,   \* gen_wordlist: None or a compiled pattern
    threads,       \* gen_wordlist: parameter threads
    futures,       \* gen_wordlist: state of each submitted task
    cur,           \* gen_wordlist: the file whose generator is being iterated
    pos,           \* number of observations (or lines) consumed so far
    LOCK,          \* the module's RLock: number of times it is held
    puts,          \* putinvocab calls made so far for each file
    lines,         \* load_wordlist: the lines of the TSV file
    lemmadata,     \* language data: a tuple of dictionaries
    lemmafilter,   \* parameter lemmafilter
    dehyphenation  \* parameter dehyphenation

binVars == <<oldestday, newestday, interval, bins, timeseries>>
paramVars == <<mindiff, maxdiff, caller>>
ingestVars == <<docs, authorregex, threads, futures, cur, pos, LOCK, puts, lines>>
lemmaVars == <<lemmadata, lemmafilter, dehyphenation>>
vars == <<pc, myvocab, vocab0, binVars, paramVars, ingestVars, lemmaVars>>

-----------------------------------------------------------------------------
(* Bounds of the model. *)
MaxDay == 6
MaxInterval == 3

MaxOffset == 2
MaxObs == 4
MaxBins == 2
MaxFreqDay == 4
MaxFreqObs == 4
MaxHyphenObs == 3
MaxLemmaObs == 3
NumFiles == 2
MaxThreads == 2
NumLines == 2

DayRange == (0 - MaxDay)..MaxDay
Offsets == 0..MaxOffset

(* All sequences over S of length lo..hi. *)
SeqsOf(S, lo, hi) == UNION {[1..n -> S] : n \in lo..hi}

-----------------------------------------------------------------------------
(* None, and the hyphen-free word-forms used where spelling plays no role. *)
None == "None"

(* Values of the variables an entry point does not use. *)
NoBins == oldestday = 0 /\ newestday = 0 /\ interval = 1 /\ bins = <<>>
                        /\ timeseries = <<>>
NoIngest == /\ docs = <<>> /\ authorregex = None /\ threads = 1
            /\ futures = <<>> /\ cur = 0 /\ pos = 0 /\ LOCK = 0
            /\ puts = <<>> /\ lines = <<>>
NoLemma == lemmadata = <<>> /\ lemmafilter = FALSE /\ dehyphenation = TRUE
WordA == <<"a">>
WordB == <<"b">>
WordC == <<"c">>

(* datatypes.Entry(): an empty time series, an empty Counter, no heading. *)
Entry == [time_series |-> <<>>, sources |-> EmptyBag, headings |-> FALSE]

Keys(vocab) == {vocab[i].word : i \in DOMAIN vocab}
IndexOf(vocab, wordform) == CHOOSE i \in DOMAIN vocab : vocab[i].word = wordform
Get(vocab, wordform) == vocab[IndexOf(vocab, wordform)]

(* putinvocab(myvocab, wordform, timediff, source, inheadings) *)
putinvocab(vocab, wordform, timediff, source, inheadings) ==
    LET v1 == IF wordform \notin Keys(vocab)
              THEN Append(vocab, [word |-> wordform,
                                  time_series |-> Entry.time_series,
                                  sources |-> Entry.sources,
                                  headings |-> Entry.headings])
              ELSE vocab
        i == IndexOf(v1, wordform)
    IN  [v1 EXCEPT ![i].time_series = Append(@, timediff),
                   ![i].sources = IF source # None /\ source # ""
                                  THEN @ (+) SetToBag({source}) ELSE @,
                   ![i].headings = IF inheadings THEN TRUE ELSE @]

(* The vocabulary after putinvocab of each observation tuple of obs in turn. *)
RECURSIVE PutAll(_, _)
PutAll(vocab, obs) ==
    IF obs = <<>> THEN vocab
    ELSE PutAll(putinvocab(vocab, obs[1][1], obs[1][2], obs[1][3], obs[1][4]),
                Tail(obs))

-----------------------------------------------------------------------------
(* Python's range(a, b - 1, -1): a, a-1, ..., b (empty when a < b). *)
RangeDown(a, b) == [i \in 1..(IF a >= b THEN a - b + 1 ELSE 0) |-> a - i + 1]

(* calculate_bins with the multiple-of-interval test dropped. *)
calculate_bins_unaligned(oldest, newest, iv) ==
    SelectSeq(RangeDown(oldest, newest), LAMBDA d : oldest - d >= iv)

(* calculate_bins(oldestday, newestday, interval) *)
calculate_bins(oldest, newest, iv) ==
    SelectSeq(RangeDown(oldest, newest),
              LAMBDA d : oldest - d >= iv /\ d % iv = 0)

-----------------------------------------------------------------------------
(* Specification SpecBins: calculate_bins applied to bounded arguments. *)
InitBins ==
    /\ pc = "call"
    /\ caller = "calculate_bins"
    /\ myvocab = <<>>
    /\ vocab0 = <<>>
    /\ oldestday \in DayRange
    /\ newestday \in DayRange
    /\ interval \in 1..MaxInterval
    /\ bins = <<>>
    /\ timeseries = <<>>
    /\ mindiff = 0 /\ maxdiff = 0
    /\ NoIngest /\ NoLemma

CalculateBins ==
    /\ pc = "call"
    /\ bins' = calculate_bins(oldestday, newestday, interval)
    /\ pc' = "done"
    /\ UNCHANGED <<myvocab, vocab0, oldestday, newestday, interval, timeseries,
                   paramVars, ingestVars, lemmaVars>>

NextBins == CalculateBins

SpecBins == InitBins /\ [][NextBins]_vars

(* C3: calculate_bins returns a strictly decreasing sequence; every element
   is a multiple of interval, at least interval days below oldestday and
   >= newestday; consecutive bins differ by at least interval; and the
   result is empty whenever oldestday - newestday < interval. *)
C3_BinsShape ==
    pc = "done" =>
        /\ \A i \in DOMAIN bins :
              /\ \E k \in DayRange : bins[i] = k * interval
              /\ oldestday - bins[i] >= interval
              /\ bins[i] >= newestday
        /\ \A i \in 1..(Len(bins) - 1) :
              /\ bins[i] > bins[i + 1]
              /\ bins[i] - bins[i + 1] >= interval
        /\ (oldestday - newestday < interval => bins = <<>>)

(* A call that yields several bins, one of them a negative day-offset. *)
C3_Witness ==
    /\ pc = "done"
    /\ Len(bins) >= 2
    /\ interval >= 2
    /\ \E i \in DOMAIN bins : bins[i] < 0

-----------------------------------------------------------------------------
(* Number of occurrences of d in a sequence. *)
RECURSIVE Count(_, _)
Count(s, d) == IF s = <<>> THEN 0
               ELSE (IF s[1] = d THEN 1 ELSE 0) + Count(Tail(s), d)

(* refine_frequencies: the list comprehension of line 264. *)
InBounds(series, b) ==
    SelectSeq(series, LAMBDA d : b[Len(b)] <= d /\ d < b[1])

(* refine_frequencies with the newest boundary bins[0] taken inclusive. *)
refine_frequencies_inclusive(vocab, b) ==
    LET new_series(e) == SelectSeq(e.time_series,
                                   LAMBDA d : b[Len(b)] <= d /\ d <= b[1])
        deletions == {vocab[i].word : i \in {j \in DOMAIN vocab :
                                              Len(new_series(vocab[j])) <= 1}}
        updated == [i \in DOMAIN vocab |->
                      IF vocab[i].word \in deletions THEN vocab[i]
                      ELSE [vocab[i] EXCEPT !.time_series = new_series(vocab[i])]]
    IN  SelectSeq(updated, LAMBDA e : e.word \notin deletions)

(* refine_frequencies(vocab, bins) *)
refine_frequencies(vocab, b) ==
    LET new_series(e) == InBounds(e.time_series, b)
        deletions == {vocab[i].word : i \in {j \in DOMAIN vocab :
                                              Len(new_series(vocab[j])) <= 1}}
        updated == [i \in DOMAIN vocab |->
                      IF vocab[i].word \in deletions THEN vocab[i]
                      ELSE [vocab[i] EXCEPT !.time_series = new_series(vocab[i])]]
    IN  SelectSeq(updated, LAMBDA e : e.word \notin deletions)

(* Specification SpecRefine: refine_frequencies applied to an ingested
   vocabulary and an arbitrary non-empty bin list. *)
InitRefine ==
    /\ pc = "refine"
    /\ caller = "refine_frequencies"
    /\ \E obs \in SeqsOf({WordA, WordB} \X Offsets \X {None} \X {FALSE}, 1, MaxObs) :
          myvocab = PutAll(<<>>, obs)
    /\ vocab0 = <<>>
    /\ oldestday = 0 /\ newestday = 0 /\ interval = 1
    /\ bins \in SeqsOf(Offsets, 1, MaxBins)
    /\ timeseries = <<>>
    /\ mindiff = 0 /\ maxdiff = 0
    /\ NoIngest /\ NoLemma

(* gen_freqlist line 337, or a direct call. *)
RefineFrequencies ==
    /\ pc = "refine"
    /\ vocab0' = myvocab
    /\ myvocab' = refine_frequencies(myvocab, bins)
    /\ pc' = "compute"
    /\ UNCHANGED <<binVars, paramVars, ingestVars, lemmaVars>>

NextRefine == RefineFrequencies

SpecRefine == InitRefine /\ [][NextRefine]_vars

(* The day-offsets of a series that lie in [bins[last], bins[0]). *)
InRange(d) == bins[Len(bins)] <= d /\ d < bins[1]
NumInRange(series) == Cardinality({i \in DOMAIN series : InRange(series[i])})

(* C4: after refine_frequencies every retained Entry holds exactly its
   original day-offsets d with bins[last] <= d < bins[0], at least two of
   them; an Entry with 0 or 1 such day-offsets is absent; no key is new. *)
C4_RefineKeepsRange ==
    pc = "compute" =>
        /\ Keys(myvocab) \subseteq Keys(vocab0)
        /\ \A i \in DOMAIN vocab0 :
              LET w == vocab0[i].word
                  n == NumInRange(vocab0[i].time_series)
              IN  IF n <= 1 THEN w \notin Keys(myvocab)
                  ELSE /\ w \in Keys(myvocab)
                       /\ Len(Get(myvocab, w).time_series) = n
                       /\ \A d \in Offsets :
                             Count(Get(myvocab, w).time_series, d) =
                                IF InRange(d) THEN Count(vocab0[i].time_series, d) ELSE 0

(* One Entry is truncated and kept (a day equal to bins[0] is dropped),
   another is deleted. *)
C4_Witness ==
    /\ pc = "compute"
    /\ Len(myvocab) = 1
    /\ Len(vocab0) = 2
    /\ \E i \in DOMAIN vocab0 :
          /\ vocab0[i].word \in Keys(myvocab)
          /\ Len(Get(myvocab, vocab0[i].word).time_series) < Len(vocab0[i].time_series)
          /\ \E k \in DOMAIN vocab0[i].time_series : vocab0[i].time_series[k] = bins[1]

-----------------------------------------------------------------------------
Min2(a, b) == IF a <= b THEN a ELSE b
SeqMin(series) == CHOOSE d \in {series[i] : i \in DOMAIN series} :
                     \A i \in DOMAIN series : d <= series[i]
SeqMax(series) == CHOOSE d \in {series[i] : i \in DOMAIN series} :
                     \A i \in DOMAIN series : d >= series[i]
Reverse(s) == [i \in DOMAIN s |-> s[Len(s) + 1 - i]]

(* datatypes.MAX_SERIES_VAL: the largest count a series_abs element holds. *)
MAX_SERIES_VAL == 65535

(* gen_freqlist lines 324-330: the loop over the vocabulary from word i on. *)
RECURSIVE DetermineRange(_, _, _, _)
DetermineRange(vocab, i, oldest, newest) ==
    IF i > Len(vocab) THEN <<oldest, newest>>
    ELSE LET lo == SeqMin(vocab[i].time_series)
             hi == SeqMax(vocab[i].time_series)
         IN  IF hi > oldest THEN DetermineRange(vocab, i + 1, hi, newest)
             ELSE IF lo < newest THEN DetermineRange(vocab, i + 1, oldest, lo)
             ELSE DetermineRange(vocab, i + 1, oldest, newest)

(* compute_frequencies lines 285-292: the count of one Entry in bin i
   (1-based here, index i - 1 in the code). *)
BinTotal(series, b, i) ==
    LET total == IF i # 1
                 THEN Cardinality({k \in DOMAIN series :
                                      b[i - 1] < series[k] /\ series[k] <= b[i]})
                 ELSE Cardinality({k \in DOMAIN series : series[k] <= b[i]})
    IN  Min2(MAX_SERIES_VAL, total)

freqseries(series, b) == [i \in DOMAIN b |-> BinTotal(series, b, i)]

RECURSIVE SumTotals(_, _, _)
SumTotals(vocab, b, i) ==
    IF vocab = <<>> THEN 0
    ELSE BinTotal(vocab[1].time_series, b, i) + SumTotals(Tail(vocab), b, i)

(* compute_frequencies(vocab, bins): the vocabulary (time_series deleted,
   series_abs set) and the reversed per-bin totals.  The float field total
   (parts per million) is not represented. *)
compute_frequencies(vocab, b) ==
    <<[i \in DOMAIN vocab |->
          [word |-> vocab[i].word,
           sources |-> vocab[i].sources,
           headings |-> vocab[i].headings,
           series_abs |-> Reverse(freqseries(vocab[i].time_series, b))]],
      Reverse([i \in DOMAIN b |-> SumTotals(vocab, b, i)])>>

(* Specification SpecFreq: gen_freqlist from the return of gen_wordlist
   (line 321) to the return of compute_frequencies (line 340); the
   vocabulary gen_wordlist returned holds day-offsets in (mindiff, maxdiff].
   combine_frequencies (line 343) computes the float fields series_rel,
   mean and stddev from series_abs and is not part of the model. *)
InitFreq ==
    /\ pc = "bins"
    /\ caller = "gen_freqlist"
    /\ mindiff = 0
    /\ maxdiff \in MaxFreqDay..(MaxFreqDay + 1)
    /\ \E obs \in SeqsOf({WordA, WordB} \X (1..MaxFreqDay) \X {None} \X {FALSE},
                          1, MaxFreqObs) :
          myvocab = PutAll(<<>>, obs)
    /\ vocab0 = <<>>
    /\ oldestday = 0 /\ newestday = 0
    /\ interval \in 1..MaxInterval
    /\ bins = <<>>
    /\ timeseries = <<>>
    /\ NoIngest /\ NoLemma

(* gen_freqlist lines 323-334 *)
DetermineBins ==
    /\ pc = "bins"
    /\ LET range == DetermineRange(myvocab, 1, 0, maxdiff)
           b == calculate_bins(range[1], range[2], interval)
       IN  /\ oldestday' = range[1]
           /\ newestday' = range[2]
           /\ bins' = b
           /\ IF b = <<>>
              THEN pc' = "done" /\ myvocab' = <<>>
              ELSE pc' = "refine" /\ myvocab' = myvocab
    /\ vocab0' = myvocab
    /\ UNCHANGED <<interval, timeseries, paramVars, ingestVars, lemmaVars>>

(* gen_freqlist line 340 *)
ComputeFrequencies ==
    /\ pc = "compute"
    /\ vocab0' = myvocab
    /\ LET r == compute_frequencies(myvocab, bins)
       IN  myvocab' = r[1] /\ timeseries' = r[2]
    /\ pc' = "combine"
    /\ UNCHANGED <<oldestday, newestday, interval, bins, paramVars, ingestVars,
                   lemmaVars>>

NextFreq == DetermineBins \/ RefineFrequencies \/ ComputeFrequencies

SpecFreq == InitFreq /\ [][NextFreq]_vars

AllDays(vocab) == UNION {{vocab[i].time_series[k] : k \in DOMAIN vocab[i].time_series} :
                         i \in DOMAIN vocab}
TrueOldest(vocab) == CHOOSE d \in AllDays(vocab) : \A e \in AllDays(vocab) : d >= e
TrueNewest(vocab) == CHOOSE d \in AllDays(vocab) : \A e \in AllDays(vocab) : d <= e

(* C10: the oldestday and newestday gen_freqlist passes to calculate_bins
   are the maximum and the minimum day-offset over all time_series of the
   ingested vocabulary, so the empty result is returned only when
   calculate_bins of the observed range is empty. *)
C10_BinsFromObservedRange ==
    pc \in {"refine", "done"} =>
        /\ oldestday = TrueOldest(vocab0)
        /\ newestday = TrueNewest(vocab0)
        /\ (pc = "done" =>
              calculate_bins(TrueOldest(vocab0), TrueNewest(vocab0), interval) = <<>>)

(* C5: with bins from calculate_bins and series from refine_frequencies,
   two occurrences of an Entry separated by a bin boundary
   (d1 <= bins[k] < d2) are counted at two different indices of series_abs,
   when no count reaches the cap. *)
C5_OccurrencesPartitioned ==
    pc = "combine" =>
        \A i \in DOMAIN vocab0 :
            LET series == vocab0[i].time_series
                abs == myvocab[i].series_abs
            IN  (/\ \A x \in DOMAIN abs : abs[x] < MAX_SERIES_VAL
                 /\ \E k \in DOMAIN bins : \E a, b \in DOMAIN series :
                       series[a] <= bins[k] /\ bins[k] < series[b])
                => \E x, y \in DOMAIN abs : x # y /\ abs[x] > 0 /\ abs[y] > 0

-----------------------------------------------------------------------------
(* str.lower, str.upper and str.isupper on the characters of the model. *)
lower(c) == CASE c = "A" -> "a" [] c = "B" -> "b" [] OTHER -> c
upper(c) == CASE c = "a" -> "A" [] c = "b" -> "B" [] OTHER -> c
isupper(c) == c \in {"A", "B"}

(* str.capitalize: first character upper-cased, the others lower-cased. *)
capitalize(w) == [i \in DOMAIN w |-> IF i = 1 THEN upper(w[i]) ELSE lower(w[i])]

HasHyphen(w) == \E i \in DOMAIN w : w[i] = "-"

(* dehyphen_vocab lines 91-93 *)
Candidate(wordform) ==
    LET kept == SelectSeq(wordform, LAMBDA c : c # "-")
        candidate == [i \in DOMAIN kept |-> lower(kept[i])]
    IN  IF isupper(wordform[1]) THEN capitalize(candidate) ELSE candidate

(* A new key holding Entry(). *)
NewEntry(wordform) == [word |-> wordform,
                       time_series |-> Entry.time_series,
                       sources |-> Entry.sources,
                       headings |-> Entry.headings]

(* prune_vocab with the two series concatenated in the other order. *)
prune_vocab_swapped(vocab, first, second) ==
    LET v1 == IF second \notin Keys(vocab) THEN Append(vocab, NewEntry(second))
              ELSE vocab
        i == IndexOf(v1, second)
        e1 == Get(v1, first)
    IN  [v1 EXCEPT ![i].time_series = e1.time_series \o @,
                   ![i].sources = @ (+) e1.sources,
                   ![i].headings = IF e1.headings THEN TRUE ELSE @]

(* prune_vocab(myvocab, first, second) *)
prune_vocab(vocab, first, second) ==
    LET v1 == IF second \notin Keys(vocab) THEN Append(vocab, NewEntry(second))
              ELSE vocab
        i == IndexOf(v1, second)
        e1 == Get(v1, first)
    IN  [v1 EXCEPT ![i].time_series = @ \o e1.time_series,
                   ![i].sources = @ (+) e1.sources,
                   ![i].headings = IF e1.headings THEN TRUE ELSE @]

(* The words of the vocabulary, in its iteration order. *)
WordList(vocab) == [i \in DOMAIN vocab |-> vocab[i].word]

(* for word in deletions: del vocab[word] *)
DeleteAll(vocab, deletions) ==
    SelectSeq(vocab, LAMBDA e : \A k \in DOMAIN deletions : deletions[k] # e.word)

(* dehyphen_vocab lines 90-97: the loop over the hyphenated word-forms ws;
   yields the vocabulary and the deletions. *)
RECURSIVE DehyphenLoop(_, _, _)
DehyphenLoop(vocab, ws, deletions) ==
    IF ws = <<>> THEN <<vocab, deletions>>
    ELSE LET wordform == ws[1]
             candidate == Candidate(wordform)
         IN  IF candidate \in Keys(vocab)
             THEN DehyphenLoop(prune_vocab(vocab, wordform, candidate), Tail(ws),
                               Append(deletions, wordform))
             ELSE DehyphenLoop(vocab, Tail(ws), deletions)

(* dehyphen_vocab(vocab) *)
dehyphen_vocab(vocab) ==
    LET r == DehyphenLoop(vocab, SelectSeq(WordList(vocab), HasHyphen), <<>>)
    IN  DeleteAll(r[1], r[2])

(* simplemma.is_known and simplemma.lemmatize(..., silent=False) over the
   loaded dictionaries: a dictionary is [known: set of word-forms, lemma:
   function from the word-forms it analyses to their lemma]. *)
is_known(token, data) == \E k \in DOMAIN data : token \in data[k].known
Lemmatizable(token, data) == \E k \in DOMAIN data : token \in DOMAIN data[k].lemma
lemmatize(token, data) ==
    LET k == CHOOSE j \in DOMAIN data :
                /\ token \in DOMAIN data[j].lemma
                /\ \A h \in 1..(j - 1) : token \notin DOMAIN data[h].lemma
    IN  data[k].lemma[token]

(* filter_lemmaform(token, lemmadata, lemmafilter) *)
filter_lemmaform(token, data, filter) ==
    IF filter /\ is_known(token, data) THEN None
    ELSE IF Lemmatizable(token, data) THEN lemmatize(token, data)
    ELSE token

(* refine_vocab lines 108-116: the changes and the deletions, in order. *)
RECURSIVE LemmaScan(_, _, _, _, _)
LemmaScan(tokens, data, filter, changes, deletions) ==
    IF tokens = <<>> THEN <<changes, deletions>>
    ELSE LET token == tokens[1]
             lemma == filter_lemmaform(token, data, filter)
         IN  IF lemma = None
             THEN LemmaScan(Tail(tokens), data, filter, changes,
                            Append(deletions, token))
             ELSE IF lemma # token
             THEN LemmaScan(Tail(tokens), data, filter,
                            Append(changes, <<token, lemma>>),
                            Append(deletions, token))
             ELSE LemmaScan(Tail(tokens), data, filter, changes, deletions)

(* refine_vocab lines 117-118 *)
RECURSIVE ApplyChanges(_, _)
ApplyChanges(vocab, changes) ==
    IF changes = <<>> THEN vocab
    ELSE ApplyChanges(prune_vocab(vocab, changes[1][1], changes[1][2]),
                      Tail(changes))

(* refine_vocab(myvocab, lemmadata, lemmafilter, dehyphenation) *)
refine_vocab(vocab, data, filter, dehyphen) ==
    LET scan == LemmaScan(WordList(vocab), data, filter, <<>>, <<>>)
        lemmatized == IF Len(data) > 0
                      THEN DeleteAll(ApplyChanges(vocab, scan[1]), scan[2])
                      ELSE vocab
    IN  IF dehyphen THEN dehyphen_vocab(lemmatized) ELSE lemmatized

-----------------------------------------------------------------------------
(* Specification SpecDehyphen: dehyphen_vocab applied to a vocabulary of
   word-forms with and without hyphens. *)
HyphenWords == { <<"a", "b">>, <<"a", "-", "b">>, <<"a", "-", "B">>,
                 <<"A", "b">>, <<"A", "-", "B">>, <<"-", "A", "b">>,
                 <<"b", "-", "a">> }

(* timediff, source and inheadings of the observations drawn. *)
ObsVariants == { <<1, None, FALSE>>, <<2, "x.org", TRUE>>, <<3, "y.org", FALSE>> }

ObsOver(words) == {<<w, v[1], v[2], v[3]>> : w \in words, v \in ObsVariants}

InitDehyphen ==
    /\ pc = "dehyphen"
    /\ caller = "dehyphen_vocab"
    /\ \E obs \in SeqsOf(ObsOver(HyphenWords), 1, MaxHyphenObs) :
          myvocab = PutAll(<<>>, obs)
    /\ vocab0 = <<>>
    /\ mindiff = 0 /\ maxdiff = 0
    /\ NoBins /\ NoIngest /\ NoLemma

DehyphenVocab ==
    /\ pc = "dehyphen"
    /\ vocab0' = myvocab
    /\ myvocab' = dehyphen_vocab(myvocab)
    /\ pc' = "done"
    /\ UNCHANGED <<binVars, paramVars, ingestVars, lemmaVars>>

NextDehyphen == DehyphenVocab

SpecDehyphen == InitDehyphen /\ [][NextDehyphen]_vars

(* The hyphenated keys of vocab0 whose candidate is c, in vocabulary order. *)
Variants(c) ==
    SelectSeq(WordList(vocab0), LAMBDA w : HasHyphen(w) /\ Candidate(w) = c)

RECURSIVE SeriesOf(_)
SeriesOf(ws) == IF ws = <<>> THEN <<>>
                ELSE Get(vocab0, ws[1]).time_series \o SeriesOf(Tail(ws))

RECURSIVE SourcesOf(_)
SourcesOf(ws) == IF ws = <<>> THEN EmptyBag
                 ELSE Get(vocab0, ws[1]).sources (+) SourcesOf(Tail(ws))

Absorbed(w) == HasHyphen(w) /\ Candidate(w) \in Keys(vocab0)

(* C6: after dehyphen_vocab every hyphenated word-form whose candidate is a
   key is gone and the candidate's Entry holds its own time_series followed
   by those of its variants and the sum of all their sources; every other
   Entry is unchanged. *)
C6_DehyphenMerges ==
    pc = "done" =>
        /\ Keys(myvocab) = {w \in Keys(vocab0) : ~Absorbed(w)}
        /\ \A w \in Keys(myvocab) :
              LET e == Get(myvocab, w)
                  e0 == Get(vocab0, w)
                  vs == Variants(w)
              IN  IF HasHyphen(w) \/ vs = <<>> THEN e = e0
                  ELSE /\ e.time_series = e0.time_series \o SeriesOf(vs)
                       /\ e.sources = e0.sources (+) SourcesOf(vs)

(* Two hyphenated variants, one of them with a capital inside, were merged
   into the same candidate, which had sources of its own. *)
C6_Witness ==
    /\ pc = "done"
    /\ \E c \in Keys(myvocab) :
          /\ Len(Variants(c)) >= 2
          /\ \E k \in DOMAIN Variants(c) : Variants(c)[k] = <<"a", "-", "B">>
          /\ Get(vocab0, c).sources # EmptyBag
          /\ Len(Get(myvocab, c).time_series) = 3

-----------------------------------------------------------------------------
(* Specification SpecLemma: refine_vocab applied to a vocabulary of
   hyphen-free word-forms with one loaded dictionary. *)
LemmaWords == {WordA, WordB, WordC}

LemmaObs == { <<WordA, 1, None, FALSE>>, <<WordB, 2, "x.org", TRUE>>,
              <<WordC, 3, "y.org", FALSE>> }

(* The functions from a subset of LemmaWords to LemmaWords. *)
LemmaTables == UNION {[D -> LemmaWords] : D \in SUBSET LemmaWords}

InitLemma ==
    /\ pc = "refine_vocab"
    /\ caller = "refine_vocab"
    /\ \E obs \in SeqsOf(LemmaObs, 1, MaxLemmaObs) : myvocab = PutAll(<<>>, obs)
    /\ vocab0 = <<>>
    /\ \E t \in LemmaTables, kn \in SUBSET LemmaWords :
          lemmadata = <<[known |-> kn, lemma |-> t]>>
    /\ lemmafilter \in BOOLEAN
    /\ dehyphenation \in BOOLEAN
    /\ mindiff = 0 /\ maxdiff = 0
    /\ NoBins /\ NoIngest

(* gen_wordlist line 199, load_wordlist line 229, or a direct call.
   convert_to_numpy (lines 200, 230) keeps every series element by element. *)
RefineVocab ==
    /\ pc = "refine_vocab"
    /\ vocab0' = myvocab
    /\ myvocab' = refine_vocab(myvocab, lemmadata, lemmafilter, dehyphenation)
    /\ pc' = "done"
    /\ UNCHANGED <<binVars, paramVars, ingestVars, lemmaVars>>

NextLemma == RefineVocab

SpecLemma == InitLemma /\ [][NextLemma]_vars

(* C8: the lemma pass loses no occurrences: for every token whose lemma is
   a usable result different from the token, the token's day-offsets, its
   sources and its heading flag are in the Entry keyed by the lemma in the
   returned vocabulary. *)
C8_LemmaPassKeepsOccurrences ==
    pc = "done" =>
        \A i \in DOMAIN vocab0 :
            LET token == vocab0[i].word
                lemma == filter_lemmaform(token, lemmadata, lemmafilter)
            IN  (lemma # None /\ lemma # token) =>
                  /\ lemma \in Keys(myvocab)
                  /\ \A d \in 1..3 :
                        Count(Get(myvocab, lemma).time_series, d)
                            >= Count(vocab0[i].time_series, d)
                  /\ vocab0[i].sources \sqsubseteq Get(myvocab, lemma).sources
                  /\ (vocab0[i].headings => Get(myvocab, lemma).headings)

-----------------------------------------------------------------------------
(* Ingestion: read_file, gen_wordlist, load_wordlist. *)

(* The defaults of maxdiff and mindiff. *)
MaxDiffDefault == 1000
MinDiffDefault == 0

(* datatypes.TODAY as a day number. *)
TODAY == 5000

(* The text of a date: a date in YYYY-MM-DD format, given by its day
   number, or a text strptime rejects (or no text at all). *)
Date(n) == [kind |-> "date", day |-> n]
NotADate == [kind |-> "invalid", day |-> 0]
(* No date node in the document. *)
NoDateNode == [kind |-> "absent", day |-> 0]

(* calc_timediff(mydate): [none |-> TRUE] for None, else the days. *)
calc_timediff(mydate) ==
    IF mydate.kind = "date" THEN [none |-> FALSE, days |-> TODAY - mydate.day]
    ELSE [none |-> TRUE, days |-> 0]

(* filters.is_relevant_input: an opaque predicate on tokens; here it
   rejects the token "1". *)
is_relevant_input(token) == token # <<"1">>

(* A parsed file: tree is FALSE when load_html returns None; date is
   NoDateNode or the text of the first date node; author is "absent"
   (no author node), "excluded" (matched by authorregex) or "other";
   source is the domain of the URL or the publisher; headwords are the
   tokens of the fw elements; tokens are those of the text element. *)
Malformed == [tree |-> FALSE, date |-> NoDateNode, author |-> "absent",
              source |-> None, headwords |-> {}, tokens |-> <<>>]
Document(date, author, tokens) ==
    [tree |-> TRUE, date |-> date, author |-> author, source |-> "x.org",
     headwords |-> {WordA}, tokens |-> tokens]

(* read_file(filepath, maxdiff, mindiff, authorregex, details): what the
   generator does when iterated: [raises |-> exception or None, obs |-> the
   tuples it yields before it returns]. *)
read_file(doc, maxd, mind, regex, details) ==
    IF ~doc.tree THEN [raises |-> "AttributeError", obs |-> <<>>]
    ELSE IF doc.date = NoDateNode THEN [raises |-> "IndexError", obs |-> <<>>]
    ELSE LET timediff == calc_timediff(doc.date)
         IN  IF timediff.none \/ ~(mind < timediff.days /\ timediff.days <= maxd)
             THEN [raises |-> None, obs |-> <<>>]
             ELSE IF regex # None /\ doc.author = "excluded"
             THEN [raises |-> None, obs |-> <<>>]
             ELSE LET source == IF details THEN doc.source ELSE None
                      headwords == IF details
                                   THEN {t \in doc.headwords : is_relevant_input(t)}
                                   ELSE {}
                      relevant == SelectSeq(doc.tokens, is_relevant_input)
                  IN  [raises |-> None,
                       obs |-> [i \in DOMAIN relevant |->
                                  <<relevant[i], timediff.days, source,
                                    relevant[i] \in headwords>>]]

(* gen_wordlist line 180: readfunc *)
readfunc(doc) == read_file(doc, maxdiff, mindiff, authorregex, FALSE)

Files == 1..NumFiles

DocPool ==
    {Malformed}
    \cup {Document(d, "other", <<WordA>>) :
             d \in {NoDateNode, NotADate, Date(TODAY + 1),
                    Date(TODAY - MinDiffDefault),
                    Date(TODAY - MaxDiffDefault - 1)}}
    \cup {Document(d, a, <<WordA, <<"1">>, WordB>>) :
             d \in {Date(TODAY - MinDiffDefault - 1), Date(TODAY - MaxDiffDefault)},
             a \in {"absent", "excluded", "other"}}

(* Specification SpecIngest: gen_wordlist on NumFiles files, or
   load_wordlist on a file of up to NumLines lines. *)
InitGenWordlist ==
    /\ caller = "gen_wordlist"
    /\ myvocab = <<>>
    /\ vocab0 = <<>>
    /\ mindiff = MinDiffDefault
    /\ maxdiff = MaxDiffDefault
    /\ docs \in [Files -> DocPool]
    /\ authorregex \in {None, "regex"}
    /\ threads \in 1..MaxThreads
    /\ pc = IF threads = 1 THEN "legacy" ELSE "submit"
    /\ futures = [f \in Files |-> "none"]
    /\ cur = 1
    /\ pos = 0
    /\ LOCK = 0
    /\ puts = [f \in Files |-> 0]
    /\ lines = <<>>
    /\ NoBins /\ NoLemma

(* One step of the iteration of lines 188-190 (threads == 1): the generator
   of file cur raises, is exhausted, or yields an observation that is put
   into the vocabulary. *)
LegacyStep ==
    /\ pc = "legacy"
    /\ LET r == readfunc(docs[cur])
       IN  IF r.raises # None
           THEN /\ pc' = "raised"
                /\ UNCHANGED <<myvocab, cur, pos, puts>>
           ELSE IF pos = Len(r.obs)
           THEN /\ pc' = IF cur = NumFiles THEN "submit" ELSE "legacy"
                /\ cur' = IF cur = NumFiles THEN cur ELSE cur + 1
                /\ pos' = 0
                /\ UNCHANGED <<myvocab, puts>>
           ELSE /\ myvocab' = putinvocab(myvocab, r.obs[pos + 1][1], r.obs[pos + 1][2],
                                         r.obs[pos + 1][3], r.obs[pos + 1][4])
                /\ puts' = [puts EXCEPT ![cur] = @ + 1]
                /\ pos' = pos + 1
                /\ UNCHANGED <<pc, cur>>
    /\ UNCHANGED <<vocab0, binVars, paramVars, docs, authorregex, threads, futures,
                   LOCK, lines, lemmaVars>>

(* line 193: every file is submitted to the executor. *)
Submit ==
    /\ pc = "submit"
    /\ futures' = [f \in Files |-> "pending"]
    /\ pc' = "wait"
    /\ UNCHANGED <<myvocab, vocab0, binVars, paramVars, docs, authorregex, threads,
                   cur, pos, LOCK, puts, lines, lemmaVars>>

(* A worker of the pool (at most threads of them) takes a task ... *)
WorkerStart(f) ==
    /\ f \in DOMAIN futures
    /\ futures[f] = "pending"
    /\ Cardinality({g \in Files : futures[g] = "running"}) < threads
    /\ futures' = [futures EXCEPT ![f] = "running"]
    /\ UNCHANGED <<pc, myvocab, vocab0, binVars, paramVars, docs, authorregex, threads,
                   cur, pos, LOCK, puts, lines, lemmaVars>>

(* ... and completes it: calling readfunc only creates the generator. *)
WorkerFinish(f) ==
    /\ f \in DOMAIN futures
    /\ futures[f] = "running"
    /\ futures' = [futures EXCEPT ![f] = "done"]
    /\ UNCHANGED <<pc, myvocab, vocab0, binVars, paramVars, docs, authorregex, threads,
                   cur, pos, LOCK, puts, lines, lemmaVars>>

(* line 194: as_completed hands over a completed future. *)
NextCompleted(f) ==
    /\ pc = "wait"
    /\ futures[f] = "done"
    /\ futures' = [futures EXCEPT ![f] = "consumed"]
    /\ cur' = f
    /\ pos' = 0
    /\ pc' = "iter"
    /\ UNCHANGED <<myvocab, vocab0, binVars, paramVars, docs, authorregex, threads,
                   LOCK, puts, lines, lemmaVars>>

(* line 194: as_completed is exhausted and the executor is shut down. *)
AllCompleted ==
    /\ pc = "wait"
    /\ \A f \in Files : futures[f] = "consumed"
    /\ pc' = "refine_vocab"
    /\ UNCHANGED <<myvocab, vocab0, binVars, paramVars, ingestVars, lemmaVars>>

(* line 195: the generator future.result() is advanced in the calling
   thread: it raises, is exhausted, or yields the next observation. *)
IterNext ==
    /\ pc = "iter"
    /\ LET r == readfunc(docs[cur])
       IN  pc' = IF r.raises # None THEN "raised"
                 ELSE IF pos = Len(r.obs) THEN "wait"
                 ELSE "acquire"
    /\ UNCHANGED <<myvocab, vocab0, binVars, paramVars, ingestVars, lemmaVars>>

(* Acquire that does not take the lock. *)
Acquire_skipped ==
    /\ pc = "acquire"
    /\ pc' = "put"
    /\ UNCHANGED <<myvocab, vocab0, binVars, paramVars, ingestVars, lemmaVars>>

(* line 196: with LOCK (entered) *)
Acquire ==
    /\ pc = "acquire"
    /\ LOCK' = LOCK + 1
    /\ pc' = "put"
    /\ UNCHANGED <<myvocab, vocab0, binVars, paramVars, docs, authorregex, threads,
                   futures, cur, pos, puts, lines, lemmaVars>>

(* line 197 *)
Put ==
    /\ pc = "put"
    /\ LET o == readfunc(docs[cur]).obs[pos + 1]
       IN  myvocab' = putinvocab(myvocab, o[1], o[2], o[3], o[4])
    /\ puts' = [puts EXCEPT ![cur] = @ + 1]
    /\ pos' = pos + 1
    /\ pc' = "release"
    /\ UNCHANGED <<vocab0, binVars, paramVars, docs, authorregex, threads, futures,
                   cur, LOCK, lines, lemmaVars>>

(* line 196: with LOCK (left) *)
Release ==
    /\ pc = "release"
    /\ LOCK' = LOCK - 1
    /\ pc' = "iter"
    /\ UNCHANGED <<myvocab, vocab0, binVars, paramVars, docs, authorregex, threads,
                   futures, cur, pos, puts, lines, lemmaVars>>

(* load_wordlist: a line is the tuple of its columns. *)
LinePool ==
    { <<WordA>>, <<WordA, NotADate>>, <<WordA, Date(TODAY + 1)>>,
      <<WordA, Date(TODAY)>>, <<WordB, Date(TODAY - MaxDiffDefault)>>,
      <<WordB, Date(TODAY - MaxDiffDefault - 1)>>,
      <<WordB, Date(TODAY - 1), "x.org">>,
      <<WordB, Date(TODAY - 1), "x.org", "more">> }

InitLoadWordlist ==
    /\ caller = "load_wordlist"
    /\ pc = "load"
    /\ myvocab = <<>>
    /\ vocab0 = <<>>
    /\ mindiff = MinDiffDefault
    /\ maxdiff = MaxDiffDefault
    /\ lines \in SeqsOf(LinePool, 1, NumLines)
    /\ docs = <<>> /\ authorregex = None /\ threads = 1 /\ futures = <<>>
    /\ cur = 0 /\ pos = 0 /\ LOCK = 0 /\ puts = <<>>
    /\ NoBins /\ NoLemma

(* load_wordlist lines 213-227: one line of the file. *)
LoadLine ==
    /\ pc = "load"
    /\ pos < Len(lines)
    /\ LET columns == lines[pos + 1]
           source == IF Len(columns) = 3 THEN columns[3] ELSE None
           timediff == calc_timediff(columns[2])
       IN  myvocab' = IF Len(columns) \notin {2, 3} THEN myvocab
                      ELSE IF timediff.none \/ timediff.days > maxdiff THEN myvocab
                      ELSE putinvocab(myvocab, columns[1], timediff.days, source,
                                      FALSE)
    /\ pos' = pos + 1
    /\ UNCHANGED <<pc, vocab0, binVars, paramVars, docs, authorregex, threads, futures,
                   cur, LOCK, puts, lines, lemmaVars>>

(* load_wordlist: the end of the file. *)
LoadEnd ==
    /\ pc = "load"
    /\ pos = Len(lines)
    /\ pc' = "refine_vocab"
    /\ UNCHANGED <<myvocab, vocab0, binVars, paramVars, ingestVars, lemmaVars>>

InitIngest == InitGenWordlist \/ InitLoadWordlist

NextIngest ==
    \/ LegacyStep
    \/ Submit
    \/ \E f \in Files : WorkerStart(f)
    \/ \E f \in Files : WorkerFinish(f)
    \/ \E f \in Files : NextCompleted(f)
    \/ AllCompleted
    \/ IterNext
    \/ Acquire
    \/ Put
    \/ Release
    \/ LoadLine
    \/ LoadEnd
    \/ RefineVocab

SpecIngest == InitIngest /\ [][NextIngest]_vars

(* The observations read_file emits for file f. *)
Emitted(f) == readfunc(docs[f]).obs
WellFormed(f) == readfunc(docs[f]).raises = None

(* C1: a structural parse error in one document (no date node, no tree)
   only skips that document: the error never propagates out of
   gen_wordlist, the batch runs to completion and the observations of
   every well-formed file have been put into the vocabulary. *)
C1_ParseErrorSkipsDocument ==
    caller = "gen_wordlist" =>
        /\ pc # "raised"
        /\ (pc \in {"refine_vocab", "done"} =>
              \A f \in Files : WellFormed(f) => puts[f] >= Len(Emitted(f)))

(* C2: every day-offset stored in a time_series lies in the valid range:
   not below the lower bound (mindiff for gen_wordlist, 0 for
   load_wordlist) and not above maxdiff. *)
C2_StoredOffsetsInRange ==
    pc \in {"legacy", "submit", "wait", "iter", "acquire", "put", "release",
            "load", "refine_vocab"} =>
        \A i \in DOMAIN myvocab : \A k \in DOMAIN myvocab[i].time_series :
            /\ myvocab[i].time_series[k] >=
                   (IF caller = "gen_wordlist" THEN mindiff ELSE 0)
            /\ myvocab[i].time_series[k] <= maxdiff

(* C7 as claimed: the lock is held for a file's entire batch of put calls,
   so it is held between two putinvocab calls of the same file. *)
C7_LockHeldForWholeFile ==
    (pc = "iter" /\ 0 < pos /\ pos < Len(Emitted(cur))) => LOCK > 0

(* C7 as amended: in the multi-threaded ingestion every putinvocab call is
   made with the lock held, and the lock is acquired and released once per
   putinvocab call: it is free whenever the next observation of the file is
   fetched. *)
C7_LockPerPut ==
    /\ (pc \in {"put", "release"} => LOCK = 1)
    /\ (pc \notin {"put", "release"} => LOCK = 0)

(* The second observation of a file has been put under the lock, which was
   free when it was fetched. *)
C7_Witness ==
    /\ pc = "release"
    /\ pos = 2
    /\ LOCK = 1
    /\ threads > 1

(* C9: for every worker count, when ingestion is complete each observation
   emitted by read_file for each file has been passed to putinvocab exactly
   once. *)
C9_EachObservationPutOnce ==
    (caller = "gen_wordlist" /\ pc \in {"refine_vocab", "done"}) =>
        \A f \in Files : puts[f] = Len(Emitted(f))
=============================================================================
